---- MODULE Spec2Model ----
(***************************************************************************)
(* Model of project-scheduler.py: optimize_project_schedule builds a       *)
(* linear program over the task table (one start_time variable per task,   *)
(* one total_duration variable, one constraint per resolvable predecessor  *)
(* reference and one per task), hands it to the LP solver and extracts the *)
(* solution; analyze_project_schedule adds float_time and sorts the rows   *)
(* by start_time.                                                          *)
(*                                                                         *)
(* Time is counted in sixths of an hour, so that                           *)
(* pert_duration = (best + 4*expected + worst) / 6 is exact: every time    *)
(* value v of the model stands for v/6 hours.                              *)
(*                                                                         *)
(* predecessorTaskIDs is modelled after split(',') and strip(): a sequence *)
(* of entries, where Blank is an entry that is empty after stripping (the  *)
(* field <<Blank>> is a string of white space).  The empty sequence stands *)
(* for NaN and for the empty string alike (both fail the test of line 30). *)
(* Fields are text and taskIDs are unique; the branch of line 34 for a     *)
(* field that is not a string is not modelled.                             *)
(***************************************************************************)
EXTENDS Integers, Sequences, FiniteSets, TLC

MaxTasks == 3   \* rows of tasks_df
MaxRefs == 2    \* predecessor entries in the whole table

TaskIDs == <<"A", "B", "C", "D", "E">>   \* row i carries taskID TaskIDs[i]
Unknown == "Z"                           \* a reference that matches no row
Blank == ""                              \* an entry that strips to nothing
\* (bestCaseHours, expectedHours, worstCaseHours) of a row
Estimates == {<<0, 0, 0>>, <<1, 2, 3>>}

VARIABLES pc, tasks_df, warnings, prob, results, error, schedule_df, analysis

vars == <<pc, tasks_df, warnings, prob, results, error, schedule_df, analysis>>

NoResult == [status |-> "none"]

-----------------------------------------------------------------------------
(* Arithmetic helpers *)

Max(S) == CHOOSE x \in S : \A y \in S : y <= x
Min(S) == CHOOSE x \in S : \A y \in S : x <= y

RECURSIVE Gcd(_, _)
Gcd(a, b) == IF b = 0 THEN a ELSE Gcd(b, a % b)

RECURSIVE SumSeq(_)
SumSeq(s) == IF s = <<>> THEN 0 ELSE Head(s) + SumSeq(Tail(s))

RECURSIVE GcdSeq(_)
GcdSeq(s) == IF s = <<>> THEN 0 ELSE Gcd(Head(s), GcdSeq(Tail(s)))

RECURSIVE Concat(_)
Concat(ss) == IF ss = <<>> THEN <<>> ELSE Head(ss) \o Concat(Tail(ss))

-----------------------------------------------------------------------------
(* The task table *)

Entries(n) == {TaskIDs[i] : i \in 1..n} \cup {Unknown}

PredFields(n, budget) ==
    UNION {[1..k -> Entries(n)] : k \in 0..budget}
        \cup (IF budget >= 1 THEN {<<Blank>>} ELSE {})

\* All assignments of predecessor fields to rows 1..rows, with at most
\* budget entries in total.
RECURSIVE FieldColumns(_, _, _)
FieldColumns(n, rows, budget) ==
    IF rows = 0 THEN {<<>>}
    ELSE UNION {{Append(rest, f) : rest \in FieldColumns(n, rows - 1, budget - Len(f))} :
                f \in PredFields(n, budget)}

Tables(n) ==
    {[i \in 1..n |-> [taskID |-> TaskIDs[i],
                      predecessorTaskIDs |-> col[i],
                      bestCaseHours |-> est[i][1],
                      expectedHours |-> est[i][2],
                      worstCaseHours |-> est[i][3]]] :
        col \in FieldColumns(n, n, MaxRefs), est \in [1..n -> Estimates]}

-----------------------------------------------------------------------------
(* optimize_project_schedule: building the problem *)

\* lines 14-16, in sixths of an hour
pert_duration(row) == row.bestCaseHours + 4 * row.expectedHours + row.worstCaseHours

\* line 32: entries that are empty after strip() are dropped
pred_list(field) == SelectSeq(field, LAMBDA p : p # Blank)

\* line 38: the rows whose taskID equals pred
Matching(df, pred) == {i \in 1..Len(df) : df[i].taskID = pred}

\* line 38: .iloc[0] of the matching rows' pert_duration
pred_duration(df, pred) == pert_duration(df[Min(Matching(df, pred))])

\* as PrecedenceConstraint, written without the predecessor's duration
PrecedenceConstraintNoDuration(df, task_id, pred) ==
    [kind |-> "prec", task |-> task_id, pred |-> pred, duration |-> 0]

\* line 39: start_times[task_id] >= start_times[pred] + pred_duration
PrecedenceConstraint(df, task_id, pred) ==
    [kind |-> "prec", task |-> task_id, pred |-> pred, duration |-> pred_duration(df, pred)]

\* as CompletionConstraint, bounding the total by the start instead of the end
CompletionConstraintNoDuration(row) ==
    [kind |-> "span", task |-> row.taskID, pred |-> row.taskID, duration |-> 0]

\* line 44: total_project_duration >= start_times[task_id] + duration
CompletionConstraint(row) ==
    [kind |-> "span", task |-> row.taskID, pred |-> row.taskID, duration |-> pert_duration(row)]

\* as RowPrecedence, with the loop left at the first predecessor not found
RowPrecedenceUntilMissing(df, i) ==
    LET preds == pred_list(df[i].predecessorTaskIDs)
        missing == {k \in 1..Len(preds) : {j \in 1..Len(df) : df[j].taskID = preds[k]} = {}}
        stop == IF missing = {} THEN Len(preds)
                ELSE (CHOOSE k \in missing : \A m \in missing : k <= m) - 1
    IN  [k \in 1..stop |->
            [kind |-> "prec", task |-> df[i].taskID, pred |-> preds[k],
             duration |-> pred_duration(df, preds[k])]]

\* lines 36-42: the constraints one row's loop adds, in order
RowPrecedence(df, i) ==
    LET found == SelectSeq(pred_list(df[i].predecessorTaskIDs),
                           LAMBDA p : Matching(df, p) # {})
    IN  [k \in 1..Len(found) |-> PrecedenceConstraint(df, df[i].taskID, found[k])]

\* lines 40-42: the warnings one row's loop prints, in order
RowWarnings(df, i) ==
    LET missing == SelectSeq(pred_list(df[i].predecessorTaskIDs),
                             LAMBDA p : Matching(df, p) = {})
    IN  [k \in 1..Len(missing) |-> [pred |-> missing[k], task |-> df[i].taskID]]

\* lines 23-44: the constraints of prob after the loop over the rows
Constraints(df) ==
    Concat([i \in 1..Len(df) |-> RowPrecedence(df, i) \o <<CompletionConstraint(df[i])>>])

\* lines 23-44: everything printed by the loop over the rows
Warnings(df) == Concat([i \in 1..Len(df) |-> RowWarnings(df, i)])

-----------------------------------------------------------------------------
(* optimize_project_schedule: prob.solve() *)

\* line 8-9: the keys of start_times
TaskKeys(df) == {df[i].taskID : i \in 1..Len(df)}

Durations(df) == [i \in 1..Len(df) |-> pert_duration(df[i])]

\* The values a variable may take in a solution: the solver returns a basic
\* solution, whose coordinates are integer combinations of the constraints'
\* constants, and no optimal coordinate exceeds the sum of the durations.
TimeGrid(df) ==
    LET g == GcdSeq(Durations(df))
        h == SumSeq(Durations(df))
    IN  IF g = 0 THEN {0} ELSE {g * k : k \in 0..(h \div g)}

\* the start_times (lowBound = 0) that satisfy every constraint of line 39
FeasibleStarts(df, cons) ==
    {s \in [TaskKeys(df) -> TimeGrid(df)] :
        \A k \in 1..Len(cons) :
            cons[k].kind = "prec" => s[cons[k].task] >= s[cons[k].pred] + cons[k].duration}

\* the least total_duration (lowBound = 0) that satisfies every constraint of
\* line 44 for the start times s
LeastTotal(s, cons) ==
    Max({0} \cup {s[cons[k].task] + cons[k].duration :
                    k \in {j \in 1..Len(cons) : cons[j].kind = "span"}})

\* line 20 and 47: the points that minimise total_duration
OptimalPoints(df, cons) ==
    LET feasible == FeasibleStarts(df, cons)
        best == Min({LeastTotal(s, cons) : s \in feasible})
    IN  {[start |-> s, total |-> best] : s \in {f \in feasible : LeastTotal(f, cons) = best}}

\* lines 61-76: one entry of task_details
TaskResult(row, start_time) ==
    [taskID |-> row.taskID,
     start_time |-> start_time,
     pert_duration |-> pert_duration(row),
     best_case |-> row.bestCaseHours,
     expected_case |-> row.expectedHours,
     worst_case |-> row.worstCaseHours,
     end_time |-> start_time + pert_duration(row)]

\* lines 53-78
Results(df, x) ==
    [status |-> "Optimal",
     total_project_duration |-> x.total,
     schedule |-> x.start,
     task_details |-> [i \in 1..Len(df) |-> TaskResult(df[Min(Matching(df, df[i].taskID))],
                                                       x.start[df[i].taskID])]]

-----------------------------------------------------------------------------
(* analyze_project_schedule *)

\* as WithFloat, measuring the float from the first row's end_time
WithFloatFromFirst(details) ==
    [i \in 1..Len(details) |->
        [taskID |-> details[i].taskID,
         start_time |-> details[i].start_time,
         pert_duration |-> details[i].pert_duration,
         best_case |-> details[i].best_case,
         expected_case |-> details[i].expected_case,
         worst_case |-> details[i].worst_case,
         end_time |-> details[i].end_time,
         float_time |-> details[1].end_time - details[i].end_time,
         index |-> i]]

\* line 91; index is the frame's row label, which sort_values keeps
WithFloat(details) ==
    LET last == Max({details[i].end_time : i \in 1..Len(details)})
    IN  [i \in 1..Len(details) |->
            [taskID |-> details[i].taskID,
             start_time |-> details[i].start_time,
             pert_duration |-> details[i].pert_duration,
             best_case |-> details[i].best_case,
             expected_case |-> details[i].expected_case,
             worst_case |-> details[i].worst_case,
             end_time |-> details[i].end_time,
             float_time |-> last - details[i].end_time,
             index |-> i]]

\* as SortOrders, with the rows left in the order of task_details
SortOrdersInputOrder(df) == {[i \in 1..Len(df) |-> i]}

\* line 95: sort_values('start_time') sorts with the default kind, quicksort,
\* which is not stable: any arrangement of the rows with ascending start_time
\* is a possible outcome.
SortOrders(df) ==
    {p \in [1..Len(df) -> 1..Len(df)] :
        /\ \A i, j \in 1..Len(df) : i # j => p[i] # p[j]
        /\ \A i \in 1..(Len(df) - 1) : df[p[i]].start_time <= df[p[i + 1]].start_time}

-----------------------------------------------------------------------------
(* Behaviour *)

Init ==
    /\ pc = "start"
    /\ \E n \in 0..MaxTasks : tasks_df \in Tables(n)
    /\ warnings = <<>>
    /\ prob = <<>>
    /\ results = NoResult
    /\ error = "none"
    /\ schedule_df = <<>>
    /\ analysis = NoResult

\* lines 5-50 on a problem without optimal solution: status != 1
OptimizeFails ==
    /\ pc = "start"
    /\ FeasibleStarts(tasks_df, Constraints(tasks_df)) = {}
    /\ prob' = Constraints(tasks_df)
    /\ warnings' = Warnings(tasks_df)
    /\ error' = "ValueError"
    /\ pc' = "failed"
    /\ UNCHANGED <<tasks_df, results, schedule_df, analysis>>

\* lines 5-78 on a problem with an optimal solution
OptimizeReturns ==
    /\ pc = "start"
    /\ \E x \in OptimalPoints(tasks_df, Constraints(tasks_df)) :
          results' = Results(tasks_df, x)
    /\ prob' = Constraints(tasks_df)
    /\ warnings' = Warnings(tasks_df)
    /\ pc' = "optimized"
    /\ UNCHANGED <<tasks_df, error, schedule_df, analysis>>

\* lines 88-91 on an empty task_details: the frame has no end_time column
AnalyzeFails ==
    /\ pc = "optimized"
    /\ results.task_details = <<>>
    /\ error' = "KeyError"
    /\ pc' = "failed"
    /\ UNCHANGED <<tasks_df, warnings, prob, results, schedule_df, analysis>>

\* lines 88-101
AnalyzeReturns ==
    /\ pc = "optimized"
    /\ results.task_details # <<>>
    /\ LET df == WithFloat(results.task_details)
       IN  \E p \in SortOrders(df) :
              /\ schedule_df' = [i \in 1..Len(df) |-> df[p[i]]]
              /\ analysis' = [status |-> "returned",
                              total_project_duration |-> results.total_project_duration,
                              optimization_status |-> results.status]
    /\ pc' = "analyzed"
    /\ UNCHANGED <<tasks_df, warnings, prob, results, error>>

Next == OptimizeFails \/ OptimizeReturns \/ AnalyzeFails \/ AnalyzeReturns

Spec == Init /\ [][Next]_vars

-----------------------------------------------------------------------------
(* The graph of validated precedence edges, read off tasks_df *)

Rows == 1..Len(tasks_df)

IDs == {tasks_df[i].taskID : i \in Rows}

RowOf(id) == CHOOSE i \in Rows : tasks_df[i].taskID = id

Refs(i) == {tasks_df[i].predecessorTaskIDs[k] : k \in 1..Len(tasks_df[i].predecessorTaskIDs)}

\* the predecessor references of row i that resolve to an existing task
ValidPreds(i) == Refs(i) \cap IDs

\* the predecessor references of row i that match no task
UnresolvedRefs(i) == Refs(i) \ (IDs \cup {Blank})

Dur(id) == pert_duration(tasks_df[RowOf(id)])

\* <<p, t>>: task t lists the existing task p as a predecessor
Edges == UNION {{<<p, tasks_df[i].taskID>> : p \in ValidPreds(i)} : i \in Rows}

\* chains of validated edges through distinct tasks
Chains ==
    {c \in UNION {[1..k -> IDs] : k \in 1..Len(tasks_df)} :
        /\ \A i, j \in 1..Len(c) : i # j => c[i] # c[j]
        /\ \A i \in 1..(Len(c) - 1) : <<c[i], c[i + 1]>> \in Edges}

HasCycle == \E c \in Chains : <<c[Len(c)], c[1]>> \in Edges

ChainDuration(c) == SumSeq([k \in 1..Len(c) |-> Dur(c[k])])

Returned == results # NoResult

Details == results.task_details

-----------------------------------------------------------------------------
(* Claims *)

\* C1: in every returned schedule, no task starts before any of its validated
\* predecessors ends: start_time(t) >= start_time(p) + pert_duration(p).
C1_PrecedenceRespected ==
    Returned =>
        \A i \in Rows : \A p \in ValidPreds(i) :
            results.schedule[tasks_df[i].taskID] >= results.schedule[p] + Dur(p)

\* a schedule was returned in which a task waits for a predecessor of
\* positive duration
C1_Witness ==
    /\ Returned
    /\ \E i \in Rows : \E p \in ValidPreds(i) :
          /\ p # tasks_df[i].taskID
          /\ Dur(p) > 0
          /\ results.schedule[tasks_df[i].taskID] >= results.schedule[p] + Dur(p)

\* C2: for every acyclic task set, every returned start time is the earliest
\* feasible one: start(t) = max(0, max over the validated predecessors p of
\* start(p) + pertDuration(p)); a task without validated predecessor starts
\* at 0.
C2_EarliestStart ==
    (Returned /\ ~HasCycle) =>
        \A i \in Rows :
            results.schedule[tasks_df[i].taskID] =
                Max({0} \cup {results.schedule[p] + Dur(p) : p \in ValidPreds(i)})

\* C3: for a non-empty task set, the reported total_project_duration equals
\* the greatest end_time of the returned schedule and no end_time exceeds it.
C3_MakespanIsMaxEnd ==
    (Returned /\ tasks_df # <<>>) =>
        /\ \A i \in 1..Len(Details) : Details[i].end_time <= results.total_project_duration
        /\ \E i \in 1..Len(Details) : Details[i].end_time = results.total_project_duration
        /\ \A i \in 1..Len(Details) :
              Details[i].end_time = Details[i].start_time + Dur(Details[i].taskID)

\* a schedule was returned whose makespan is reached by a task that started
\* later than 0 while another task ends earlier
C3_Witness ==
    /\ Returned
    /\ \E i, j \in 1..Len(Details) :
          /\ Details[i].start_time > 0
          /\ Details[i].end_time = results.total_project_duration
          /\ Details[j].end_time < results.total_project_duration

\* C4: when the validated edges contain a cycle, whatever the durations, the
\* solve ends in an error and no schedule is returned.
C4_CycleIsAnError ==
    (HasCycle /\ pc # "start") => (~Returned /\ error # "none")

\* C5: an unresolved predecessor reference does not abort the build: one
\* warning naming the reference and the task is printed for each such
\* reference and nothing else is printed, every resolvable reference of the
\* same list is still enforced, and the problem handed to the solver is the
\* problem of the same table with the unresolved references removed (so a
\* solve that fails, fails for that table too).
StripUnresolved ==
    [i \in Rows |->
        [taskID |-> tasks_df[i].taskID,
         predecessorTaskIDs |-> SelectSeq(tasks_df[i].predecessorTaskIDs,
                                          LAMBDA p : p \in IDs \cup {Blank}),
         bestCaseHours |-> tasks_df[i].bestCaseHours,
         expectedHours |-> tasks_df[i].expectedHours,
         worstCaseHours |-> tasks_df[i].worstCaseHours]]

Occurrences(seq, x) == Cardinality({k \in 1..Len(seq) : seq[k] = x})

C5_UnresolvedIsWarning ==
    pc # "start" =>
        /\ \A i \in Rows : \A z \in UnresolvedRefs(i) :
              Occurrences(warnings, [pred |-> z, task |-> tasks_df[i].taskID])
                  = Occurrences(tasks_df[i].predecessorTaskIDs, z)
        /\ \A k \in 1..Len(warnings) :
              \E i \in Rows : /\ warnings[k].task = tasks_df[i].taskID
                              /\ warnings[k].pred \in UnresolvedRefs(i)
        /\ \A i \in Rows : \A p \in ValidPreds(i) :
              \E k \in 1..Len(prob) :
                  prob[k] = [kind |-> "prec", task |-> tasks_df[i].taskID,
                             pred |-> p, duration |-> Dur(p)]
        /\ prob = Constraints(StripUnresolved)
        /\ (error = "ValueError") =>
               (FeasibleStarts(StripUnresolved, Constraints(StripUnresolved)) = {})

\* a schedule was returned for a table in which a task lists an unresolved
\* reference before a resolvable one of positive duration
C5_Witness ==
    /\ Returned
    /\ \E i \in Rows :
          LET f == tasks_df[i].predecessorTaskIDs
          IN  /\ Len(f) = 2
              /\ f[1] \notin IDs
              /\ f[2] \in IDs \ {tasks_df[i].taskID}
              /\ Dur(f[2]) > 0
              /\ Len(warnings) = 1

\* C6: given zero tasks, the solver fails with EmptyTaskSet: it returns no
\* result of total duration zero and fails with no other error.
C6_EmptyTaskSet ==
    (tasks_df = <<>> /\ pc # "start") => (~Returned /\ error = "EmptyTaskSet")

\* C7: in the analyzed schedule of a non-empty task set,
\* float_time(t) = makespan - end_time(t) >= 0 for every task and at least
\* one task has float_time 0.
C7_FloatNonNegative ==
    pc = "analyzed" =>
        /\ \A i \in 1..Len(schedule_df) :
              /\ schedule_df[i].float_time
                     = analysis.total_project_duration - schedule_df[i].end_time
              /\ schedule_df[i].float_time >= 0
        /\ \E i \in 1..Len(schedule_df) : schedule_df[i].float_time = 0

\* an analyzed schedule in which a task other than the first has float 0
\* and another task has positive float
C7_Witness ==
    /\ pc = "analyzed"
    /\ \E i, j \in 1..Len(schedule_df) :
          /\ schedule_df[i].index > 1
          /\ schedule_df[i].float_time = 0
          /\ schedule_df[j].float_time > 0

\* C8: every task whose float_time is 0 lies on a chain of validated
\* precedence edges whose summed pert durations equal the makespan.
C8_ZeroFloatIsCritical ==
    pc = "analyzed" =>
        \A i \in 1..Len(schedule_df) :
            schedule_df[i].float_time = 0 =>
                \E c \in Chains :
                    /\ \E k \in 1..Len(c) : c[k] = schedule_df[i].taskID
                    /\ ChainDuration(c) = analysis.total_project_duration

====
